---- MODULE Spec2Model ----
(***************************************************************************)
(* Model of src/solar.py: the Streamlit entry point main(), the image       *)
(* normalisation in SolarAnalysisAI.encode_image, and the request /         *)
(* envelope / JSON-extraction cascade of SolarAnalysisAI.analyze_rooftop.   *)
(*                                                                         *)
(* Text is modelled at token level: a reply is a sequence of tokens, where *)
(* "{", "}" and "," are the JSON punctuation characters, "1" is a number    *)
(* literal, a key token (e.g. "a", "roof_analysis") is a quoted member name *)
(* with its colon, and "p" is a character of prose.                        *)
(***************************************************************************)
EXTENDS Integers, Sequences, FiniteSets, TLC

VARIABLES
    pc,           \* position of the script run
    env_key,      \* os.getenv("OPENROUTER_API_KEY"), "" when unset
    user_key,     \* the key the user has to type into the sidebar, "" when none
    api_key,      \* main's api_key / analyzer.api_key
    image,        \* the uploaded PIL image: [mode, w, h]
    enc,          \* the image handed to image.save in encode_image
    request_sent, \* requests.post was called
    auth_header,  \* the Authorization header of the request
    response,     \* [status, body] returned by requests.post
    reached,      \* the stages of analyze_rooftop's try block that ran
    content,      \* result['choices'][0]['message']['content']
    json_start,   \* content.find('{')
    json_end,     \* content.rfind('}') + 1
    json_str,     \* content[json_start:json_end]
    reported,     \* the st.error message analyze_rooftop emitted
    diag,         \* the payload of the st.write that follows the st.error
    returned,     \* the value analyze_rooftop returned
    escaped,      \* an exception left analyze_rooftop
    shown         \* what main did with the returned value

vars == <<pc, env_key, user_key, api_key, image, enc, request_sent,
          auth_header, response, reached, content, json_start, json_end,
          json_str, reported, diag, returned, escaped, shown>>

----------------------------------------------------------------------------
(* Bounds *)

MaxLen == 5     \* longest enumerated reply, in tokens
MaxDim == 2     \* largest image width / height

(* Program constants *)

DiagLimit == 500   \* response.text[:500]

----------------------------------------------------------------------------
(* JSON values and json.loads *)

Num == [t |-> "num", m |-> <<>>]
EmptyObj == [t |-> "obj", m |-> <<>>]
Obj(f) == [t |-> "obj", m |-> f]

Sections == <<"solar_potential", "financial_analysis", "roof_analysis",
              "installation_considerations", "recommendations">>

SectionSet == {Sections[i] : i \in 1..Len(Sections)}

Keys == SectionSet \cup {"a"}

Put(acc, k, v) == [x \in (DOMAIN acc) \cup {k} |-> IF x = k THEN v ELSE acc[x]]

ParseFail(i) == [ok |-> FALSE, val |-> Num, next |-> i]

RECURSIVE ParseValue(_, _), ParseMembers(_, _, _)

ParseValue(s, i) ==
    IF i > Len(s) THEN ParseFail(i)
    ELSE IF s[i] = "1" THEN [ok |-> TRUE, val |-> Num, next |-> i + 1]
    ELSE IF s[i] = "{" THEN
        IF i + 1 <= Len(s) /\ s[i + 1] = "}"
        THEN [ok |-> TRUE, val |-> EmptyObj, next |-> i + 2]
        ELSE ParseMembers(s, i + 1, <<>>)
    ELSE ParseFail(i)

ParseMembers(s, i, acc) ==
    IF i > Len(s) \/ s[i] \notin Keys THEN ParseFail(i)
    ELSE LET v == ParseValue(s, i + 1) IN
        IF ~v.ok THEN v
        ELSE LET acc2 == Put(acc, s[i], v.val) IN
            IF v.next > Len(s) THEN ParseFail(v.next)
            ELSE IF s[v.next] = "}"
                 THEN [ok |-> TRUE, val |-> Obj(acc2), next |-> v.next + 1]
            ELSE IF s[v.next] = ","
                 THEN ParseMembers(s, v.next + 1, acc2)
            ELSE ParseFail(v.next)

\* json.loads(s): one value, then end of input ("Extra data" otherwise)
json_loads(s) ==
    LET r == ParseValue(s, 1) IN
    IF r.ok /\ r.next = Len(s) + 1 THEN r ELSE [r EXCEPT !.ok = FALSE]

----------------------------------------------------------------------------
(* str.find, str.rfind and slicing, with Python's 0-based positions *)

RECURSIVE FindFrom(_, _, _)
FindFrom(s, c, i) ==
    IF i > Len(s) THEN -1
    ELSE IF s[i] = c THEN i - 1
    ELSE FindFrom(s, c, i + 1)

find(s, c) == FindFrom(s, c, 1)

RECURSIVE RFindFrom(_, _, _)
RFindFrom(s, c, i) ==
    IF i < 1 THEN -1
    ELSE IF s[i] = c THEN i - 1
    ELSE RFindFrom(s, c, i - 1)

rfind(s, c) == RFindFrom(s, c, Len(s))

\* s[a:b] for 0 <= a, 0 <= b
Slice(s, a, b) == SubSeq(s, a + 1, IF b > Len(s) THEN Len(s) ELSE b)

JsonEndNoInc(s) == rfind(s, "}")

JsonEnd(s) == rfind(s, "}") + 1

NoJsonGuardOrdered(start, end) == start = -1 \/ end <= start

NoJsonGuard(start, end) == start = -1 \/ end = 0

----------------------------------------------------------------------------
(* Python values returned by analyze_rooftop *)

PyNone == [type |-> "NoneType", val |-> Num]
PyDict(v) == [type |-> "dict", val |-> v]

\* bool(x) as used by "if analysis:"
Truthy(x) == x.type = "dict" /\ x.val.m # <<>>

----------------------------------------------------------------------------
(* Images *)

Modes == {"RGBA", "LA", "PA", "RGB", "L", "P", "CMYK"}

NoImage == [mode |-> "none", w |-> 0, h |-> 0]

Images == [mode : Modes, w : 0..MaxDim, h : 0..MaxDim]

NormalizeKeepLA(img) ==
    IF img.mode = "RGBA" THEN [mode |-> "RGB", w |-> img.w, h |-> img.h]
    ELSE IF img.mode \notin {"RGB", "L", "LA"} THEN [img EXCEPT !.mode = "RGB"]
    ELSE img

Normalize(img) ==
    IF img.mode = "RGBA" THEN [mode |-> "RGB", w |-> img.w, h |-> img.h]
    ELSE IF img.mode \notin {"RGB", "L"} THEN [img EXCEPT !.mode = "RGB"]
    ELSE img

----------------------------------------------------------------------------
(* Credentials *)

ResolveKeyExplicitFirst(env, user) == IF user = "" THEN env ELSE user

ResolveKey(env, user) == IF env = "" THEN user ELSE env

----------------------------------------------------------------------------
(* Replies and responses *)

Alphabet == {"{", "}", ",", "1", "a", "p"}

RECURSIVE SeqsUpTo(_)
SeqsUpTo(n) ==
    IF n = 0 THEN {<<>>}
    ELSE LET shorter == SeqsUpTo(n - 1) IN
         shorter \cup {Append(s, c) : s \in {x \in shorter : Len(x) = n - 1},
                                      c \in Alphabet}

RECURSIVE Members(_, _)
Members(S, i) ==
    IF i > Len(Sections) THEN <<>>
    ELSE LET rest == Members(S, i + 1) IN
         IF Sections[i] \in S
         THEN <<Sections[i], "{", "a", "1", "}">>
              \o (IF rest = <<>> THEN <<>> ELSE <<",">> \o rest)
         ELSE rest

ReportText(S) == <<"{">> \o Members(S, 1) \o <<"}">>

ExampleReply == <<"p", "{", "a", "1", "}", "p">>

LongReply == <<"{">> \o [i \in 1..DiagLimit |-> "p"] \o <<"}">>

SampleReplies ==
    {ReportText(S) : S \in SUBSET SectionSet}
    \cup {<<"p">> \o ReportText(S) \o <<"p">> : S \in SUBSET SectionSet}
    \cup {<<"p">>, <<"{", "p", "}">>, <<"}", "{">>, <<"{", "a", "1", "}">>}

ExtractReplies == SeqsUpTo(MaxLen) \cup {ExampleReply, LongReply}

\* response bodies: text is "empty", "blank" (whitespace only) or "text";
\* raw is response.text where the code prints it; json is what
\* response.json() yields; choices is result['choices']; first is what
\* result['choices'][0] holds
Body(text, raw, json, choices, first, c) ==
    [text |-> text, raw |-> raw, json |-> json, choices |-> choices,
     first |-> first, content |-> c]

LongRaw == [i \in 1..(DiagLimit + 1) |-> "p"]

BadBodies ==
    { Body("empty", <<>>, "invalid", "absent", "no_message", <<>>),
      Body("blank", <<>>, "invalid", "absent", "no_message", <<>>),
      Body("text", <<"p">>, "invalid", "absent", "no_message", <<>>),
      Body("text", LongRaw, "invalid", "absent", "no_message", <<>>),
      Body("text", <<>>, "scalar", "absent", "no_message", <<>>),
      Body("text", <<>>, "list", "absent", "no_message", <<>>),
      Body("text", <<>>, "dict", "absent", "no_message", <<>>),
      Body("text", <<>>, "dict", "empty", "no_message", <<>>),
      Body("text", <<>>, "dict", "nonempty", "no_message", <<>>),
      Body("text", <<>>, "dict", "nonempty", "no_content", <<>>),
      Body("text", <<>>, "dict", "nonempty", "null_content", <<>>) }

OkBody(c) == Body("text", <<>>, "dict", "nonempty", "content", c)

Bodies == BadBodies \cup {OkBody(c) : c \in SampleReplies}

Statuses == {200, 304, 404, 500}

NoResponse == [status |-> 0, body |-> OkBody(<<>>)]

\* response.raise_for_status() raises HTTPError
RaisesForStatus(status) == 400 <= status /\ status < 600

----------------------------------------------------------------------------
(* The script run *)

Init ==
    /\ pc = "start"
    /\ env_key \in {"", "ENV"}
    /\ user_key \in {"", "USER"}
    /\ api_key = ""
    /\ image = NoImage
    /\ enc = NoImage
    /\ request_sent = FALSE
    /\ auth_header = <<>>
    /\ response = NoResponse
    /\ reached = {}
    /\ content = <<>>
    /\ json_start = -1
    /\ json_end = 0
    /\ json_str = <<>>
    /\ reported = "none"
    /\ diag = <<>>
    /\ returned = PyNone
    /\ escaped = "none"
    /\ shown = "none"

\* main: the sidebar's credential choice and the construction of the analyzer
MainConfigure ==
    /\ pc = "start"
    /\ api_key' = ResolveKey(env_key, user_key)
    /\ pc' = IF api_key' = "" THEN "no_key" ELSE "ready"
    /\ UNCHANGED <<env_key, user_key, image, enc, request_sent, auth_header,
                   response, reached, content, json_start, json_end, json_str,
                   reported, diag, returned, escaped, shown>>

\* analyze_rooftop: image_b64 = self.encode_image(image), before the try block
EncodeImage ==
    /\ pc = "ready"
    /\ \E img \in Images, outcome \in {"ok", "load_error", "save_error"} :
        /\ image' = img
        /\ IF outcome = "load_error"
           THEN /\ enc' = NoImage
                /\ escaped' = "encode_error"
                /\ pc' = "done"
           ELSE /\ enc' = Normalize(img)
                /\ IF outcome = "save_error" \/ img.w = 0 \/ img.h = 0
                   THEN escaped' = "encode_error" /\ pc' = "done"
                   ELSE escaped' = "none" /\ pc' = "encoded"
    /\ UNCHANGED <<env_key, user_key, api_key, request_sent, auth_header,
                   response, reached, content, json_start, json_end, json_str,
                   reported, diag, returned, shown>>

\* analyze_rooftop: requests.post and raise_for_status
PostRequest ==
    /\ pc = "encoded"
    /\ request_sent' = TRUE
    /\ auth_header' = <<"Bearer", api_key>>
    /\ \/ /\ response' = NoResponse          \* connection error or timeout
          /\ reported' = "API request failed"
          /\ returned' = PyNone
          /\ pc' = "returned"
       \/ \E st \in Statuses, b \in Bodies :
          /\ response' = [status |-> st, body |-> b]
          /\ IF RaisesForStatus(st)
             THEN /\ reported' = "API request failed"
                  /\ returned' = PyNone
                  /\ pc' = "returned"
             ELSE /\ reported' = "none"
                  /\ returned' = returned
                  /\ pc' = "responded"
    /\ UNCHANGED <<env_key, user_key, api_key, image, enc, reached, content,
                   json_start, json_end, json_str, diag, escaped, shown>>

\* the message the body checks end with, "none" when the envelope is accepted
EnvelopeError(b) ==
    IF b.text \in {"empty", "blank"} THEN "Empty response from API"
    ELSE IF b.json = "invalid" THEN "Invalid JSON response"
    ELSE IF b.json = "scalar" THEN "Unexpected error"
    ELSE IF b.json = "list" \/ b.choices \in {"absent", "empty"}
         THEN "Unexpected API response structure"
    ELSE IF b.first \in {"no_message", "no_content", "null_content"}
         THEN "Unexpected error"
    ELSE "none"

\* the stages the body checks run through before they end; a null content
\* ends at content.find with the AttributeError the last handler reports
EnvelopeStages(b) ==
    IF b.text \in {"empty", "blank"} THEN {"empty_check"}
    ELSE IF b.json = "invalid" THEN {"empty_check", "body_json"}
    ELSE {"empty_check", "body_json", "envelope_check"}

\* analyze_rooftop: the body checks up to content = result[...]
CheckEnvelope ==
    /\ pc = "responded"
    /\ reached' = EnvelopeStages(response.body)
    /\ reported' = EnvelopeError(response.body)
    /\ IF reported' = "none"
       THEN /\ content' = response.body.content
            /\ returned' = returned
            /\ pc' = "extract"
       ELSE /\ content' = content
            /\ returned' = PyNone
            /\ pc' = "returned"
    /\ diag' = IF reported' = "Invalid JSON response"
               THEN Slice(response.body.raw, 0, DiagLimit)
               ELSE diag
    /\ UNCHANGED <<env_key, user_key, api_key, image, enc, request_sent,
                   auth_header, response, json_start, json_end, json_str,
                   escaped, shown>>

\* analyze_rooftop: locating and parsing the JSON block of the reply
Extract ==
    /\ pc = "extract"
    /\ json_start' = find(content, "{")
    /\ json_end' = JsonEnd(content)
    /\ IF NoJsonGuard(json_start', json_end')
       THEN /\ reported' = "No JSON found in AI response"
            /\ diag' = content
            /\ json_str' = json_str
            /\ reached' = reached \cup {"extract"}
            /\ returned' = PyNone
       ELSE /\ json_str' = Slice(content, json_start', json_end')
            /\ reached' = reached \cup {"extract", "parse"}
            /\ LET r == json_loads(json_str') IN
               IF r.ok
               THEN /\ reported' = "none"
                    /\ diag' = diag
                    /\ returned' = PyDict(r.val)
               ELSE /\ reported' = "Failed to parse AI response JSON"
                    /\ diag' = json_str'
                    /\ returned' = PyNone
    /\ pc' = "returned"
    /\ UNCHANGED <<env_key, user_key, api_key, image, enc, request_sent,
                   auth_header, response, content, escaped, shown>>

\* the first section display_analysis_results looks up that is absent
RECURSIVE FirstMissing(_, _)
FirstMissing(obj, i) ==
    IF i > Len(Sections) THEN "none"
    ELSE IF Sections[i] \notin DOMAIN obj.m THEN Sections[i]
    ELSE FirstMissing(obj, i + 1)

\* main: what is done with analyze_rooftop's return value
MainDisplay ==
    /\ pc = "returned"
    /\ shown' = IF Truthy(returned)
                THEN IF FirstMissing(returned.val, 1) = "none"
                     THEN "display"
                     ELSE "display_KeyError"
                ELSE "analysis_failed"
    /\ pc' = "done"
    /\ UNCHANGED <<env_key, user_key, api_key, image, enc, request_sent,
                   auth_header, response, reached, content, json_start,
                   json_end, json_str, reported, diag, returned, escaped>>

Next ==
    \/ MainConfigure
    \/ EncodeImage
    \/ PostRequest
    \/ CheckEnvelope
    \/ Extract
    \/ MainDisplay

Spec == Init /\ [][Next]_vars

\* the extractor on its own: the state at content = result[...] for any reply
InitExtract ==
    /\ pc = "extract"
    /\ env_key = "ENV"
    /\ user_key = ""
    /\ api_key = "ENV"
    /\ image = [mode |-> "RGB", w |-> 1, h |-> 1]
    /\ enc = [mode |-> "RGB", w |-> 1, h |-> 1]
    /\ request_sent = TRUE
    /\ auth_header = <<"Bearer", "ENV">>
    /\ content \in ExtractReplies
    /\ response = [status |-> 200, body |-> OkBody(content)]
    /\ reached = {"empty_check", "body_json", "envelope_check"}
    /\ json_start = -1
    /\ json_end = 0
    /\ json_str = <<>>
    /\ reported = "none"
    /\ diag = <<>>
    /\ returned = PyNone
    /\ escaped = "none"
    /\ shown = "none"

NextExtract ==
    \/ Extract
    \/ MainDisplay

SpecExtract == InitExtract /\ [][NextExtract]_vars

----------------------------------------------------------------------------
(* Properties *)

\* the failure kind each st.error message of analyze_rooftop stands for;
\* the message of the last handler stands for none of them
KindOf(msg) ==
    CASE msg = "API request failed" -> "TransportError"
      [] msg = "Empty response from API" -> "EmptyReplyError"
      [] msg = "Invalid JSON response" -> "MalformedEnvelopeError"
      [] msg = "Unexpected API response structure" -> "MalformedEnvelopeError"
      [] msg = "No JSON found in AI response" -> "NoJsonFoundError"
      [] msg = "Failed to parse AI response JSON" -> "JsonParseError"
      [] msg = "Unexpected error" -> "generic"
      [] OTHER -> "none"

Taxonomy == {"UnsupportedImageError", "TransportError", "EmptyReplyError",
             "MalformedEnvelopeError", "NoJsonFoundError", "JsonParseError",
             "SchemaValidationError"}

Finished == pc \in {"returned", "done"}

Has(s, c) == \E i \in 1..Len(s) : s[i] = c

FirstOpen == CHOOSE i \in 1..Len(content) :
                 content[i] = "{" /\ \A j \in 1..(i - 1) : content[j] # "{"

LastClose == CHOOSE i \in 1..Len(content) :
                 content[i] = "}" /\ \A j \in (i + 1)..Len(content) : content[j] # "}"

MissingSections(obj) == SectionSet \ DOMAIN obj.m

AlphaModes == {"RGBA", "LA", "PA"}

Success(status) == 200 <= status /\ status < 300

\* C1: a reply whose extracted JSON object lacks a required section ends
\* with a schema validation failure, and the object is neither returned by
\* analyze_rooftop nor passed to display_analysis_results.
C1_MissingSectionRejected ==
    (/\ Finished
     /\ Success(response.status)
     /\ "parse" \in reached
     /\ json_loads(json_str).ok
     /\ MissingSections(json_loads(json_str).val) # {})
    => /\ KindOf(reported) = "SchemaValidationError"
       /\ returned.type # "dict"
       /\ shown \notin {"display", "display_KeyError"}

\* C2: every failure inside analyze_rooftop is returned as a value whose
\* type is the failure's kind of the taxonomy, never as a report.
C2_TypedFailure ==
    (Finished /\ reported # "none")
    => /\ KindOf(reported) \in Taxonomy
       /\ returned.type = KindOf(reported)

\* C3: the extractor ends with "no JSON found" if and only if the reply has
\* no "{" or has no "}", and in that case no parse is attempted.
C3_NoJsonIff ==
    Finished =>
        /\ (KindOf(reported) = "NoJsonFoundError")
               <=> (~Has(content, "{") \/ ~Has(content, "}"))
        /\ (KindOf(reported) = "NoJsonFoundError") => "parse" \notin reached

C3_Witness ==
    /\ Finished
    /\ content = <<"}", "{">>
    /\ KindOf(reported) = "JsonParseError"
    /\ "parse" \in reached

\* C4: with a first "{" at i and a last "}" at j >= i, the text parsed is
\* exactly content[i..j], and when that text is well-formed JSON the value
\* returned is the object it denotes.
C4_ParsesInclusiveSubstring ==
    (/\ Finished
     /\ Has(content, "{")
     /\ Has(content, "}")
     /\ FirstOpen <= LastClose)
    => /\ "parse" \in reached
       /\ json_str = SubSeq(content, FirstOpen, LastClose)
       /\ LET r == json_loads(SubSeq(content, FirstOpen, LastClose)) IN
          r.ok => (reported = "none" /\ returned = PyDict(r.val))

C4_Witness ==
    /\ Finished
    /\ content = ExampleReply
    /\ json_str = <<"{", "a", "1", "}">>
    /\ returned = PyDict(Obj("a" :> Num))

\* C5: the payload shown with a JSON parse failure never exceeds the fixed
\* diagnostic length.
C5_BoundedDiagnostic ==
    (Finished /\ KindOf(reported) = "JsonParseError")
    => Len(diag) <= DiagLimit

\* C6: a failure of encode_image ends analyze_rooftop with an
\* UnsupportedImageError result and no exception leaving the call, and no
\* request is sent.
C6_EncodeFailureTyped ==
    (pc = "done" /\ image # NoImage /\ ~request_sent)
    => /\ escaped = "none"
       /\ returned.type = "UnsupportedImageError"

\* C7 as stated: with a credential in the environment and one entered by
\* the user, the entered one is used.
C7_ExplicitWins ==
    (pc # "start" /\ env_key # "" /\ user_key # "")
    => /\ api_key = user_key
       /\ request_sent => auth_header = <<"Bearer", user_key>>

\* C7 as amended: a credential in the environment is the one used, and the
\* entered one is used only when the environment has none.
C7_EnvironmentWins ==
    pc # "start"
    => /\ env_key # "" => api_key = env_key
       /\ env_key = "" => api_key = user_key
       /\ request_sent => auth_header = <<"Bearer", api_key>>

C7_Witness ==
    /\ request_sent
    /\ env_key = "ENV"
    /\ user_key = "USER"
    /\ auth_header = <<"Bearer", "ENV">>

\* C8: a response with a non-success status ends with the transport
\* failure, None returned and nothing raised, before any body check.
C8_NonSuccessIsTransport ==
    (Finished /\ response.status # 0 /\ ~Success(response.status))
    => /\ KindOf(reported) = "TransportError"
       /\ returned = PyNone
       /\ escaped = "none"
       /\ reached = {}

\* C9: for an input image with an alpha channel, the image handed to the
\* encoder has no alpha channel and the input's width and height.
C9_AlphaRemoved ==
    (enc # NoImage /\ image.mode \in AlphaModes)
    => /\ enc.mode \notin AlphaModes
       /\ enc.w = image.w
       /\ enc.h = image.h

C9_Witness ==
    /\ pc = "encoded"
    /\ image.mode = "LA"
    /\ enc = [mode |-> "RGB", w |-> image.w, h |-> image.h]
    /\ image.w > 0
    /\ image.h > 0

\* C10: for a success status, the empty-reply failure is reported exactly
\* for an empty body (a whitespace-only body counted as empty), and every
\* other body that is not the envelope is reported as a malformed envelope,
\* with no extraction from reply text.
IsEmptyBody(b) == b.text \in {"empty", "blank"}

IsEnvelope(b) ==
    b.json = "dict" /\ b.choices = "nonempty" /\ b.first \in {"content", "null_content"}

C10_EnvelopeFailures ==
    (Finished /\ Success(response.status))
    => /\ (KindOf(reported) = "EmptyReplyError") <=> IsEmptyBody(response.body)
       /\ (~IsEmptyBody(response.body) /\ ~IsEnvelope(response.body))
              => /\ KindOf(reported) = "MalformedEnvelopeError"
                 /\ reached \cap {"extract", "parse"} = {}

====
